---- MODULE Spec2Model ----
(***************************************************************************)
(* The recommender of src/backend/spotify_api_dynamic.py: the module       *)
(* globals set by load_recommender_models, and the two request handlers    *)
(* start_rating_session and submit_ratings_and_recommend.                  *)
(*                                                                         *)
(* Numbers.  Feature vectors are tuples of integers.  A taste profile is   *)
(* the exact quotient num / den of np.average, kept as the pair of its     *)
(* numerator vector and its denominator.  A distance is reported in        *)
(* hundredths, rounded down; the neighbour order is decided on the exact   *)
(* squared distances.                                                      *)
(*                                                                         *)
(* The same module holds the dataset of the analytics endpoints (the       *)
(* global df, set by upload, whose requests run on threads of their own)   *)
(* and the rating page of src/frontend/pages/recommendations_page.py (its  *)
(* st.session_state and what a click does to it).                          *)
(***************************************************************************)
EXTENDS Integers, Sequences, FiniteSets

VARIABLES
    knn_model,          \* line 368: None or the fitted index
    scaler,             \* line 369: None or the fitted scaler
    recommender_data,   \* line 370: None or the unpickled data dict
    recommender_df,     \* line 371: None or the catalog table
    scaled_features,    \* line 372: None or the matrix of feature vectors
    feature_cols,       \* line 373: None or the coordinate names
    server,             \* "starting" until app.run, then "serving"
    load_returned,      \* "none" | "True" | "False": load_recommender_models' result
    response,           \* the response of the request being answered
    frame,              \* the locals of submit_ratings_and_recommend at its return
    df,                 \* line 25: None or the uploaded table
    upload_pc,          \* where the upload in progress stands
    upload_response,    \* the response of the upload being answered
    analytics_response, \* the response of the analytics request being answered
    df_at_upload,       \* history: the value of df when the upload in progress began
    session_state,      \* recommendations_page.py: st.session_state
    page_error,         \* the st.error message the page shows, "" for none
    api_call,           \* the last call the page made to the API
    page_event          \* the last thing the user did on the page

globals == <<knn_model, scaler, recommender_data, recommender_df,
             scaled_features, feature_cols>>
dataset_vars == <<df, upload_pc, upload_response, analytics_response, df_at_upload>>
page_vars == <<session_state, page_error, api_call, page_event>>
vars == <<knn_model, scaler, recommender_data, recommender_df,
          scaled_features, feature_cols, server, load_returned, response, frame,
          df, upload_pc, upload_response, analytics_response, df_at_upload,
          session_state, page_error, api_call, page_event>>

\* ------------------------------------------------------------------ bounds
MaxRatings == 2     \* longest ratings list of a request
MaxTopK == 2        \* largest top_k of a request
MaxEveryOrder == 5  \* largest catalog whose samples are drawn in every order

\* ------------------------------------------------------------ Python None
None == << >>
Some(x) == <<x>>
Val(o) == o[1]

\* ----------------------------------------------------- arithmetic helpers
Min(a, b) == IF a <= b THEN a ELSE b

RECURSIVE SumSeq(_)
SumSeq(s) == IF s = << >> THEN 0 ELSE Head(s) + SumSeq(Tail(s))

Range(s) == {s[j] : j \in DOMAIN s}

\* the sequence <<F(1), ..., F(n)>>
RECURSIVE Tabulate(_, _)
Tabulate(F(_), n) == IF n = 0 THEN << >> ELSE Append(Tabulate(F, n - 1), F(n))

\* floor of the square root, by bisection on lo <= r < hi
RECURSIVE ISqrtBetween(_, _, _)
ISqrtBetween(x, lo, hi) ==
    IF hi - lo <= 1 THEN lo
    ELSE LET mid == (lo + hi) \div 2
         IN  IF mid * mid <= x THEN ISqrtBetween(x, mid, hi)
                               ELSE ISqrtBetween(x, lo, mid)
ISqrt(x) == ISqrtBetween(x, 0, Min(x, 46339) + 1)

\* ---------------------------------------------------- the offline artifacts
\* The three pickles written by backend/train_recommender.py: the index fitted
\* on the standardized vectors, the scaler, and the data dict.
CatalogA == [index   |-> <<0, 1, 2, 3, 4>>,
             vectors |-> << <<0, 0>>, <<1, 0>>, <<0, 1>>, <<5, 5>>, <<5, 6>> >>]
CatalogB == [index   |-> <<7, 3>>,
             vectors |-> << <<-1, 2>>, <<1, -1>> >>]
Catalogs == {CatalogA, CatalogB}
\* a catalog of more than 10 rows, for the sampling of start_rating_session
CatalogC == [index   |-> <<20, 21, 22, 23, 24, 25, 26, 27, 28, 29, 30>>,
             vectors |-> << <<0, 0>>, <<1, 0>>, <<0, 1>>, <<5, 5>>, <<5, 6>>, <<2, 2>>,
                            <<-1, 3>>, <<4, -2>>, <<-3, -3>>, <<6, 1>>, <<3, 7>> >>]
SampleCatalogs == {CatalogA, CatalogB, CatalogC}

ArtifactsOf(cat) ==
    [knn    |-> [fit_X |-> cat.vectors],
     scaler |-> [n_features |-> Len(cat.vectors[1])],
     data   |-> [df              |-> [index |-> cat.index],
                 scaled_features |-> cat.vectors,
                 feature_cols    |-> [c \in 1..Len(cat.vectors[1]) |-> c]]]

\* An artifact set whose parts disagree on the coordinate count: the index, the
\* scaler and feature_cols come from a fit on 3 coordinates, the catalog's
\* feature vectors have 2.
MismatchedArtifacts ==
    [knn    |-> [fit_X |-> << <<-1, 2, 0>>, <<1, -1, 0>> >>],
     scaler |-> [n_features |-> 3],
     data   |-> [df              |-> [index |-> CatalogB.index],
                 scaled_features |-> CatalogB.vectors,
                 feature_cols    |-> <<1, 2, 3>>]]

ArtifactSets == {ArtifactsOf(cat) : cat \in Catalogs} \cup {MismatchedArtifacts}

\* ------------------------------------------------- load_recommender_models
\* The steps of the try block, in order.  fail_at = 0: no step raises;
\* fail_at = k: step k raises (a missing or corrupt pickle for steps 1..3, a
\* KeyError on the data dict for steps 4..6) and the except clause returns
\* False.  Every assignment made before the failing step stays.
LoadSteps == <<"recommender_knn.pkl", "recommender_scaler.pkl", "recommender_data.pkl",
               "df", "scaled_features", "feature_cols">>

StepDone(k, fail_at) == fail_at = 0 \/ k < fail_at

\* the unpickled data dict; a key the artifact lacks is None
DataDict(data, fail_at) ==
    [df              |-> IF fail_at = 4 THEN None ELSE Some(data.df),
     scaled_features |-> IF fail_at = 5 THEN None ELSE Some(data.scaled_features),
     feature_cols    |-> IF fail_at = 6 THEN None ELSE Some(data.feature_cols)]

load_recommender_models(art, fail_at) ==
    /\ server = "starting"
    /\ load_returned = "none"
    /\ knn_model' = IF StepDone(1, fail_at) THEN Some(art.knn) ELSE knn_model
    /\ scaler' = IF StepDone(2, fail_at) THEN Some(art.scaler) ELSE scaler
    /\ recommender_data' = IF StepDone(3, fail_at)
                              THEN Some(DataDict(art.data, fail_at))
                              ELSE recommender_data
    /\ recommender_df' = IF StepDone(4, fail_at) THEN Some(art.data.df)
                                                 ELSE recommender_df
    /\ scaled_features' = IF StepDone(5, fail_at) THEN Some(art.data.scaled_features)
                                                  ELSE scaled_features
    /\ feature_cols' = IF StepDone(6, fail_at) THEN Some(art.data.feature_cols)
                                               ELSE feature_cols
    /\ load_returned' = IF fail_at = 0 THEN "True" ELSE "False"
    /\ UNCHANGED <<server, response, frame, dataset_vars, page_vars>>

\* app.run: the handlers start to serve.  Under __main__ it follows the load;
\* a WSGI server that imports the module serves without the load ever called.
app_run ==
    /\ server = "starting"
    /\ server' = "serving"
    /\ UNCHANGED <<globals, load_returned, response, frame, dataset_vars, page_vars>>

\* ------------------------------------------------------------- responses
NoResponse == [endpoint |-> "", status |-> 0, error |-> "",
               songs |-> None, recommendations |-> None, count |-> None]

ErrorResponse(endpoint, status, error) ==
    [NoResponse EXCEPT !.endpoint = endpoint, !.status = status, !.error = error]

EmptyFrame == [ratings |-> None, top_k |-> None, rated_features |-> None,
               weights |-> None, user_profile |-> None, indices |-> None,
               distances |-> None, rated_df_indices |-> None]

\* ---------------------------------------------------- start_rating_session
\* line 338
StartUnavailableNegated == recommender_df # None
StartUnavailable == recommender_df = None

\* line 343: sample_size = min(10, len(recommender_df))
SampleSizeWhole(n) == n
SampleSize(n) == Min(10, n)

\* the rows S in ascending order, started r places on and wrapped around
Rotated(S, r) ==
    LET nth(j) == CHOOSE x \in S : Cardinality({y \in S : y < x}) = j - 1
        place(j) == nth(((j + r - 1) % Cardinality(S)) + 1)
    IN  Tabulate(place, Cardinality(S))

\* line 344: recommender_df.sample(n=sample_size): size distinct rows of the n, in
\* a random order.  Every order is drawn for a catalog of up to MaxEveryOrder
\* rows; for a larger one every choice of rows is drawn, in the orders that
\* rotate it
Samples(n, size) ==
    IF n <= MaxEveryOrder
    THEN {s \in [1..size -> 1..n] : \A a, b \in 1..size : a # b => s[a] # s[b]}
    ELSE {Rotated(S, r) : S \in {T \in SUBSET (1..n) : Cardinality(T) = size},
                          r \in 0..(size - 1)}

start_rating_session_response(sample) ==
    IF StartUnavailable
    THEN ErrorResponse("start", 503, "Recommender data not loaded")
    ELSE IF recommender_df = None
    THEN ErrorResponse("start", 500, "object of type 'NoneType' has no len()")
    ELSE [NoResponse EXCEPT
            !.endpoint = "start", !.status = 200,
            !.songs = Some([j \in DOMAIN sample |->
                              [df_index |-> Val(recommender_df).index[sample[j]]]])]

start_rating_session_keeps_sample ==
    /\ server = "serving"
    /\ response = NoResponse
    /\ \E sample \in IF recommender_df = None THEN {<< >>}
                      ELSE LET n == Len(Val(recommender_df).index)
                           IN  Samples(n, SampleSize(n)) :
          /\ response' = start_rating_session_response(sample)
          /\ recommender_df' =
                IF recommender_df = None THEN None
                ELSE Some([index |-> [j \in DOMAIN sample |->
                                        Val(recommender_df).index[sample[j]]]])
    /\ UNCHANGED <<knn_model, scaler, recommender_data, scaled_features, feature_cols,
                   server, load_returned, frame, dataset_vars, page_vars>>

start_rating_session ==
    /\ server = "serving"
    /\ response = NoResponse
    /\ \E sample \in IF recommender_df = None THEN {<< >>}
                      ELSE LET n == Len(Val(recommender_df).index)
                           IN  Samples(n, SampleSize(n)) :
          response' = start_rating_session_response(sample)
    /\ UNCHANGED <<globals, server, load_returned, frame, dataset_vars, page_vars>>

\* -------------------------------------------- submit_ratings_and_recommend
\* line 408: all([knn_model, scaler, recommender_df is not None,
\*                scaled_features is not None])
Initialized ==
    /\ knn_model # None
    /\ scaler # None
    /\ recommender_df # None
    /\ scaled_features # None

\* the request bodies: a ratings list and top_k.  A df_index is a label of the
\* loaded catalog or 99, which no catalog has
DfIndexInputs ==
    (IF recommender_df = None THEN {} ELSE Range(Val(recommender_df).index)) \cup {99}
RatingEntries == [df_index : DfIndexInputs, rating : 1..5]
RatingsInputs == UNION {[1..n -> RatingEntries] : n \in 0..MaxRatings}
TopKInputs == 1..MaxTopK

\* A rating entry is a JSON object, kept as the record of its fields that have a
\* value; a field given as null is named in the record's field null, a field
\* the object lacks is in neither.
\* r.get(key) is not None
Has(r, key) == key \in DOMAIN r
\* r[key] is None
IsNull(r, key) == "null" \in DOMAIN r /\ key \in r.null
\* r[key] raises KeyError
Lacks(r, key) == ~Has(r, key) /\ ~IsNull(r, key)

\* the request bodies whose entries may lack a field or give it as null
JsonEntries ==
    [df_index : DfIndexInputs, rating : {2, 5}]
    \cup [rating : {2, 5}]
    \cup [rating : {2, 5}, null : {{"df_index"}}]
    \cup [df_index : DfIndexInputs]
    \cup [df_index : DfIndexInputs, null : {{"rating"}}]
    \cup [null : {{"df_index"}, {"rating"}, {"df_index", "rating"}}]
JsonRatingsInputs == UNION {[1..n -> JsonEntries] : n \in 0..MaxRatings}

\* line 427: df_index in recommender_df.index
InIndex(df_index) == df_index \in Range(Val(recommender_df).index)
\* line 428: recommender_df.index.get_loc(df_index), as a row number from 1
GetLoc(df_index) ==
    CHOOSE i \in DOMAIN Val(recommender_df).index :
        Val(recommender_df).index[i] = df_index

\* line 430: weights.append(rating - 3)
WeightUncentred(rating) == rating
Weight(rating) == rating - 3

\* lines 420-430: the loop that fills rated_features and weights
\* line 427: df_index is not None and rating is not None and df_index in
\* recommender_df.index
Survives(r) == Has(r, "df_index") /\ Has(r, "rating") /\ InIndex(r.df_index)
RatedFeatures(ratings) ==
    LET kept == SelectSeq(ratings, Survives)
        feature(j) == Val(scaled_features)[GetLoc(kept[j].df_index)]
    IN  Tabulate(feature, Len(kept))
WeightsOfEveryEntry(ratings) ==
    LET weight(j) == Weight(ratings[j].rating)
    IN  Tabulate(weight, Len(ratings))
Weights(ratings) ==
    LET kept == SelectSeq(ratings, Survives)
        weight(j) == Weight(kept[j].rating)
    IN  Tabulate(weight, Len(kept))

\* line 432: if not rated_features
NoRatedFeaturesNever(rated_features) == FALSE
NoRatedFeatures(rated_features) == rated_features = << >>

\* line 436: np.average(a, axis=0, weights=w): scl = w.sum(); a ZeroDivisionError
\* when scl is 0, else the sum of w[i] * a[i] divided by scl
WeightsSumToZero(w) == SumSeq(w) = 0
AverageOfFirst(a, w) == [num |-> a[1], den |-> 1]
Average(a, w) ==
    LET term(c, i) == w[i] * a[i][c]
        coordinate(c) == LET t(i) == term(c, i) IN SumSeq(Tabulate(t, Len(a)))
    IN  [num |-> Tabulate(coordinate, Len(a[1])), den |-> SumSeq(w)]

\* line 439: knn_model.kneighbors(user_profile, n_neighbors=top_k * 2), a
\* NearestNeighbors query: a ValueError when more neighbours are asked for than
\* the index holds, or when the query has another number of coordinates
KNeighborsRaises(X, Q, k) == k > Len(X) \/ Len(Q.num) # Len(X[1])

\* line 439: n_neighbors=top_k * 2
NNeighborsNoOverfetch(top_k) == top_k
NNeighbors(top_k) == top_k * 2

\* squared Euclidean distance from Q to v, times Q.den squared
Dist2(Q, v) ==
    LET square(c) == (Q.num[c] - Q.den * v[c]) * (Q.num[c] - Q.den * v[c])
    IN  SumSeq(Tabulate(square, Len(v)))
\* the distance from Q to v in hundredths, rounded down
DistCenti(Q, v) == ISqrt((Dist2(Q, v) * 10000) \div (Q.den * Q.den))
\* row p is returned before row i: nearer, or as near and earlier in the
\* catalog; d2 gives every row's squared distance
Before(d2, p, i) == d2[p] < d2[i] \/ (d2[p] = d2[i] /\ p < i)
KNeighborsIndices(X, Q, k) ==
    LET dist2(i) == Dist2(Q, X[i])
        d2 == Tabulate(dist2, Len(X))
        neighbour(j) ==
            CHOOSE i \in DOMAIN X :
                Cardinality({p \in DOMAIN X : Before(d2, p, i)}) = j - 1
    IN  Tabulate(neighbour, k)
KNeighborsDistances(X, Q, indices) ==
    LET distance(j) == DistCenti(Q, X[indices[j]])
    IN  Tabulate(distance, Len(indices))

\* line 442: {r['df_index'] for r in ratings}
RatedDfIndicesByRating(ratings) == {ratings[j].rating : j \in DOMAIN ratings}
RatedDfIndicesOffMidpoint(ratings) ==
    {ratings[j].df_index : j \in {n \in DOMAIN ratings : ratings[n].rating # 3}}
RatedDfIndices(ratings) ==
    {ratings[j].df_index : j \in {n \in DOMAIN ratings : Has(ratings[n], "df_index")}}
\* line 442: r['df_index'] raises KeyError for an entry without the key; a null
\* df_index puts None into the set, which is no label of the catalog
RatedDfIndicesRaises(ratings) == \E j \in DOMAIN ratings : Lacks(ratings[j], "df_index")

\* lines 454-462: the record of catalog row i; similarity_score = 1 - dist
RecommendationSignSlip(i, dist) == [row |-> i, similarity_score |-> dist - 100]
Recommendation(i, dist) == [row |-> i, similarity_score |-> 100 - dist]

\* line 448: if len(recommendations) >= top_k: break
EnoughRecommendationsOffByOne(recs, top_k) == Len(recs) > top_k
EnoughRecommendations(recs, top_k) == Len(recs) >= top_k

\* line 451: dist = next(dist_iter), run in every iteration: the place of
\* dist_iter after an iteration that started at d, whether or not it appended
DistIterAfterAppendOnly(d, appended) == IF appended THEN d + 1 ELSE d
DistIterAfter(d, appended) == d + 1

\* lines 445-462: the loop over indices; j is the loop's place in indices, d the
\* place of dist_iter in distances
RECURSIVE Collect(_, _, _, _, _, _, _)
Collect(indices, distances, j, d, top_k, rated, recs) ==
    IF j > Len(indices) THEN recs
    ELSE IF EnoughRecommendations(recs, top_k) THEN recs
    ELSE LET i == indices[j]
             dist == distances[d]
             appended == Val(recommender_df).index[i] \notin rated
         IN  Collect(indices, distances, j + 1, DistIterAfter(d, appended), top_k, rated,
                     IF appended THEN Append(recs, Recommendation(i, dist))
                                 ELSE recs)

\* lines 471-473: the except clause
SubmitExceptionSwallowed ==
    [NoResponse EXCEPT !.endpoint = "submit", !.status = 200,
                       !.recommendations = Some(<< >>), !.count = Some(0)]
SubmitException ==
    ErrorResponse("submit", 500, "Failed to generate recommendations")

\* lines 408-473: the response and the locals at the return
submit_result(ratings, top_k) ==
    IF ~Initialized
    THEN [response |-> ErrorResponse("submit", 503, "Recommender system not initialized"),
          frame |-> EmptyFrame]
    ELSE
    LET f0 == [EmptyFrame EXCEPT !.ratings = Some(ratings), !.top_k = Some(top_k)]
    IN
    IF ratings = << >>
    THEN [response |-> ErrorResponse("submit", 400, "No ratings provided"), frame |-> f0]
    ELSE
    LET feats == RatedFeatures(ratings)
        w == Weights(ratings)
        f1 == [f0 EXCEPT !.rated_features = Some(feats), !.weights = Some(w)]
    IN
    IF NoRatedFeatures(feats)
    THEN [response |-> ErrorResponse("submit", 400,
                          "Could not find any of the rated songs in the dataset"),
          frame |-> f1]
    ELSE IF WeightsSumToZero(w)
    THEN [response |-> SubmitException, frame |-> f1]
    ELSE
    LET Q == Average(feats, w)
        X == Val(knn_model).fit_X
        f2 == [f1 EXCEPT !.user_profile = Some(Q)]
    IN
    IF KNeighborsRaises(X, Q, NNeighbors(top_k))
    THEN [response |-> SubmitException, frame |-> f2]
    ELSE
    LET indices == KNeighborsIndices(X, Q, NNeighbors(top_k))
        distances == KNeighborsDistances(X, Q, indices)
        f3 == [f2 EXCEPT !.indices = Some(indices), !.distances = Some(distances)]
    IN
    IF RatedDfIndicesRaises(ratings)
    THEN [response |-> SubmitException, frame |-> f3]
    ELSE
    LET rated == RatedDfIndices(ratings)
        recs == Collect(indices, distances, 1, 1, top_k, rated, << >>)
    IN  [response |-> [NoResponse EXCEPT !.endpoint = "submit", !.status = 200,
                                         !.recommendations = Some(recs),
                                         !.count = Some(Len(recs))],
         frame |-> [f3 EXCEPT !.rated_df_indices = Some(rated)]]

\* the handler run on a request body drawn from bodies
submit_request(bodies) ==
    /\ server = "serving"
    /\ response = NoResponse
    /\ \E ratings \in bodies, top_k \in TopKInputs :
          \E r \in {submit_result(ratings, top_k)} :
              /\ response' = r.response
              /\ frame' = r.frame
    /\ UNCHANGED <<globals, server, load_returned, dataset_vars, page_vars>>

submit_ratings_and_recommend == submit_request(RatingsInputs)

\* the handler run on a body whose entries may lack a field
submit_json == submit_request(JsonRatingsInputs)

\* the handler has returned: the response is sent and its locals are gone
send_response ==
    /\ response # NoResponse
    /\ response' = NoResponse
    /\ frame' = EmptyFrame
    /\ UNCHANGED <<globals, server, load_returned, dataset_vars, page_vars>>

\* ====================================================== the uploaded dataset
\* line 81: required
Required == {"Track Name", "Artist Name(s)", "Duration (ms)", "Popularity"}

\* The files a client uploads: whether pd.read_csv parses the file, the rows and
\* the columns of the table it gives, and whether its Duration (ms) and
\* Popularity columns hold numbers.
CsvFiles ==
    {[name |-> "garbage.bin", parses |-> FALSE, rows |-> 0, columns |-> {},
      numeric |-> FALSE],
     [name |-> "header_only.csv", parses |-> TRUE, rows |-> 0, columns |-> Required,
      numeric |-> TRUE],
     [name |-> "no_popularity.csv", parses |-> TRUE, rows |-> 2,
      columns |-> Required \ {"Popularity"}, numeric |-> TRUE],
     [name |-> "liked.csv", parses |-> TRUE, rows |-> 2,
      columns |-> Required \cup {"Explicit"}, numeric |-> TRUE],
     [name |-> "playlist.csv", parses |-> TRUE, rows |-> 3, columns |-> Required,
      numeric |-> TRUE],
     [name |-> "text_duration.csv", parses |-> TRUE, rows |-> 1, columns |-> Required,
      numeric |-> FALSE]}
\* request.files.get('file'): None for a request without the part
RequestFiles == {None} \cup {Some(file) : file \in CsvFiles}

\* line 76: the table pd.read_csv(file) returns
read_csv(file) ==
    [file |-> file.name, rows |-> file.rows, columns |-> file.columns,
     numeric |-> file.numeric]

NoUploadResponse == [status |-> 0, error |-> "", rows |-> None]
UploadError(status, error) == [status |-> status, error |-> error, rows |-> None]

\* lines 72-76: the request is received and the file is parsed into the global
\* df; a request without the part is answered 400, a file read_csv cannot parse
\* raises before the assignment and is answered 500
upload(file) ==
    /\ server = "serving"
    /\ upload_pc = "idle"
    /\ df_at_upload' = df
    /\ IF file = None
       THEN /\ upload_response' = UploadError(400, "No file")
            /\ upload_pc' = "returned"
            /\ df' = df
       ELSE IF ~Val(file).parses
       THEN /\ upload_response' = UploadError(500, "Error tokenizing data")
            /\ upload_pc' = "returned"
            /\ df' = df
       ELSE /\ df' = Some(read_csv(Val(file)))
            /\ upload_pc' = "published"
            /\ upload_response' = upload_response
    /\ UNCHANGED <<globals, server, load_returned, response, frame,
                   analytics_response, page_vars>>

\* lines 78-83: df.empty, then the required columns
upload_validate ==
    /\ upload_pc = "published"
    /\ IF Val(df).rows = 0 \/ Val(df).columns = {}
       THEN /\ upload_response' = UploadError(400, "Empty file")
            /\ upload_pc' = "returned"
       ELSE IF ~(Required \subseteq Val(df).columns)
       THEN /\ upload_response' = UploadError(400, "Missing")
            /\ upload_pc' = "returned"
       ELSE /\ upload_pc' = "validated"
            /\ upload_response' = upload_response
    /\ UNCHANGED <<globals, server, load_returned, response, frame,
                   df, analytics_response, df_at_upload, page_vars>>

\* line 86: df['Mood'] = df.apply(predict_mood, axis=1), on the table df names
upload_add_mood ==
    /\ upload_pc = "validated"
    /\ df' = Some([Val(df) EXCEPT !.columns = @ \cup {"Mood"}])
    /\ upload_pc' = "mooded"
    /\ UNCHANGED <<globals, server, load_returned, response, frame,
                   upload_response, analytics_response, df_at_upload, page_vars>>

\* lines 88-103: the preview; int() and float() raise on a column of text and
\* the except clause answers 500
upload_return ==
    /\ upload_pc = "mooded"
    /\ upload_response' =
          IF ~Val(df).numeric THEN UploadError(500, "invalid literal for int()")
          ELSE [status |-> 200, error |-> "", rows |-> Some(Val(df).rows)]
    /\ upload_pc' = "returned"
    /\ UNCHANGED <<globals, server, load_returned, response, frame,
                   df, analytics_response, df_at_upload, page_vars>>

\* the upload's response is sent
upload_sent ==
    /\ upload_pc = "returned"
    /\ upload_pc' = "idle"
    /\ upload_response' = NoUploadResponse
    /\ UNCHANGED <<globals, server, load_returned, response, frame,
                   df, analytics_response, df_at_upload, page_vars>>

\* ------------------------------------------------- the analytics endpoints
\* a response, with the value of df the handler worked on
NoAnalytics == [endpoint |-> "", status |-> 0, data_loaded |-> None,
                total_tracks |-> None, dataset |-> None]

\* lines 62-64
health_response ==
    [NoAnalytics EXCEPT !.endpoint = "health", !.status = 200,
                        !.data_loaded = Some(df # None), !.dataset = df]

\* lines 113-131: the try block of stats raises on a missing column, on a
\* column of text and, at int(df['Popularity'].min()), on a table without rows
StatsRaises(table) ==
    \/ ~({"Duration (ms)", "Artist Name(s)", "Popularity"} \subseteq table.columns)
    \/ ~table.numeric
    \/ table.rows = 0

\* lines 106-133
stats_response ==
    IF df = None
    THEN [NoAnalytics EXCEPT !.endpoint = "stats", !.status = 400]
    ELSE IF StatsRaises(Val(df))
    THEN [NoAnalytics EXCEPT !.endpoint = "stats", !.status = 500, !.dataset = df]
    ELSE [NoAnalytics EXCEPT !.endpoint = "stats", !.status = 200,
                             !.total_tracks = Some(Val(df).rows), !.dataset = df]

\* lines 182-198: df['Mood'] raises KeyError on a table without the column
mood_distribution_response ==
    IF df = None
    THEN [NoAnalytics EXCEPT !.endpoint = "mood-distribution", !.status = 400]
    ELSE IF "Mood" \notin Val(df).columns
    THEN [NoAnalytics EXCEPT !.endpoint = "mood-distribution", !.status = 500,
                             !.dataset = df]
    ELSE [NoAnalytics EXCEPT !.endpoint = "mood-distribution", !.status = 200,
                             !.total_tracks = Some(Val(df).rows), !.dataset = df]

\* an analytics handler runs, on a thread of its own, and returns reply
analytics(reply) ==
    /\ server = "serving"
    /\ analytics_response = NoAnalytics
    /\ analytics_response' = reply
    /\ UNCHANGED <<globals, server, load_returned, response, frame,
                   df, upload_pc, upload_response, df_at_upload, page_vars>>

health == analytics(health_response)
stats == analytics(stats_response)
mood_distribution == analytics(mood_distribution_response)

analytics_sent ==
    /\ analytics_response # NoAnalytics
    /\ analytics_response' = NoAnalytics
    /\ UNCHANGED <<globals, server, load_returned, response, frame,
                   df, upload_pc, upload_response, df_at_upload, page_vars>>

\* ============================================================ the rating page
\* src/frontend/pages/recommendations_page.py.  A click reruns the script: the
\* button's branch runs, and st.rerun() runs main() again.  An action is a
\* click together with the script runs it causes.
MaxSongs == 3       \* longest song list the API returns

recommender_vars == <<globals, server, load_returned, response, frame>>

\* a dict without keys
EmptyDict == [i \in {} |-> 0]

\* lines 59-70: the defaults of st.session_state
InitialSession ==
    [rating_phase |-> TRUE, current_song_index |-> 0, songs_to_rate |-> None,
     user_ratings |-> EmptyDict, recommendations |-> None, current_rating |-> 0]

\* lines 73-80
reset_session_keeps_songs ==
    [InitialSession EXCEPT !.songs_to_rate = session_state.songs_to_rate]
reset_session == InitialSession

\* ------------------------------------------------------- the API client
\* utils/api_client.py: a call returns the JSON body of a success, or None.
\* The song lists of two sessions: n songs with the df_index first + 1 ..
\* first + n
SongList(first, n) ==
    LET song(j) == [df_index |-> first + j] IN Tabulate(song, n)
SongLists == {SongList(first, n) : first \in {10, 20}, n \in 0..MaxSongs}
StartSessionResults == {None} \cup {Some([songs |-> songs]) : songs \in SongLists}
RecommendResults == {None} \cup {Some([count |-> count]) : count \in {0, 2}}

NoCall == [endpoint |-> "", ratings |-> None, result |-> None]
StartCall(result) ==
    [endpoint |-> "start_rating_session", ratings |-> None, result |-> result]
SubmitCall(ratings_list, result) ==
    [endpoint |-> "submit_ratings_and_recommend", ratings |-> Some(ratings_list),
     result |-> result]

\* ------------------------------------------------------------ the script
\* line 125: not st.session_state.songs_to_rate
NoSongs(s) == s.songs_to_rate = None \/ Val(s.songs_to_rate) = << >>

\* lines 83-100: load_songs_to_rate, given what the API returned
load_songs_to_rate(s, result) ==
    IF result = None THEN s
    ELSE [s EXCEPT !.songs_to_rate = Some(Val(result).songs),
                   !.user_ratings = EmptyDict,
                   !.current_song_index = 0,
                   !.current_rating = 0]

\* line 133: current_idx >= len(songs)
InvalidIndex(s) == s.current_song_index >= Len(Val(s.songs_to_rate))

\* lines 268-275, 123-151 and 216-224: main() on the session s with no widget
\* fired: the session it leaves, the error it shows and whether it called the
\* API for songs.  The slider of line 151 is made anew with current_rating as
\* its value and returns it.
Rendered(s, start_result) ==
    IF ~s.rating_phase
    THEN [session |-> s,
          error |-> IF s.recommendations = None THEN "No recommendations available"
                                                ELSE "",
          called |-> FALSE]
    ELSE IF NoSongs(s) /\ start_result = None
    THEN [session |-> s, error |-> "Failed to load songs. Please try again.",
          called |-> TRUE]
    ELSE LET loaded == IF NoSongs(s) THEN load_songs_to_rate(s, start_result) ELSE s
         IN  [session |-> loaded,
              error |-> IF InvalidIndex(loaded) THEN "Invalid song index" ELSE "",
              called |-> NoSongs(s)]

\* main() runs on the session s, after the user did event; call is the last API
\* call made so far
run_script(s, call, event) ==
    /\ \E start_result \in IF s.rating_phase /\ NoSongs(s) THEN StartSessionResults
                                                          ELSE {None} :
          \E r \in {Rendered(s, start_result)} :
              /\ session_state' = r.session
              /\ page_error' = r.error
              /\ api_call' = IF r.called THEN StartCall(start_result) ELSE call
    /\ page_event' = event
    /\ UNCHANGED <<recommender_vars, dataset_vars>>

\* the page is opened, or rerun from the sidebar (line 46)
main == run_script(session_state, api_call, "main")

\* lines 137-151: a song and its slider are on the page
SongShown ==
    /\ page_event # "none"
    /\ session_state.rating_phase
    /\ ~NoSongs(session_state)
    /\ ~InvalidIndex(session_state)

\* the stars the user sets the slider to
StarsInputs == {1, 3, 5}

\* line 151: the user moves the slider
move_slider(stars) ==
    /\ SongShown
    /\ stars # session_state.current_rating
    /\ run_script([session_state EXCEPT !.current_rating = stars], api_call, "slider")

\* line 157: disabled=current_idx == 0
PreviousDisabled(s) == s.current_song_index = 0

\* lines 157-159
click_previous ==
    /\ SongShown
    /\ ~PreviousDisabled(session_state)
    /\ run_script([session_state EXCEPT !.current_song_index = @ - 1], api_call,
                  "previous")

\* line 138: is_last_song
IsLastSongNever(s) == FALSE
IsLastSong(s) == s.current_song_index = Len(Val(s.songs_to_rate)) - 1

\* line 162: can_proceed
CanProceed(s) == s.current_rating > 0

\* lines 166-169: user_ratings[current_idx] = {df_index, rating}
StoreRatingSkipped(s) == s
StoreRating(s) ==
    LET idx == s.current_song_index
        entry == [df_index |-> Val(s.songs_to_rate)[idx + 1].df_index,
                  rating |-> s.current_rating]
    IN  [s EXCEPT !.user_ratings =
            [i \in DOMAIN s.user_ratings \cup {idx} |->
                IF i = idx THEN entry ELSE s.user_ratings[i]]]

\* lines 174-178: the next song, with its stored rating or 0
NextSong(s) ==
    LET idx == s.current_song_index + 1
    IN  [s EXCEPT !.current_song_index = idx,
                  !.current_rating = IF idx \in DOMAIN s.user_ratings
                                        THEN s.user_ratings[idx].rating
                                        ELSE 0]

\* lines 165-179, is_last_song False: "Next"
click_next ==
    /\ SongShown
    /\ CanProceed(session_state)
    /\ ~IsLastSong(session_state)
    /\ run_script(NextSong(StoreRating(session_state)), api_call, "next")

\* lines 200-203: user_ratings[i] raises KeyError for an index without a rating
RatingsListRaises(s) ==
    \E i \in 0..(Len(Val(s.songs_to_rate)) - 1) : i \notin DOMAIN s.user_ratings
RatingsList(s) ==
    LET rating(j) == s.user_ratings[j - 1]
    IN  Tabulate(rating, Len(Val(s.songs_to_rate)))

\* line 208: if result
ResultOkAlways(result) == TRUE
ResultOk(result) == result # None

\* lines 165-172 and 196-213, is_last_song True: "Submit & Get Recommendations"
click_submit ==
    /\ SongShown
    /\ CanProceed(session_state)
    /\ IsLastSong(session_state)
    /\ LET stored == StoreRating(session_state)
       IN  IF RatingsListRaises(stored)
           THEN /\ session_state' = stored
                /\ page_error' = "KeyError"
                /\ api_call' = api_call
                /\ page_event' = "submit"
                /\ UNCHANGED <<recommender_vars, dataset_vars>>
           ELSE \E result \in RecommendResults :
                  IF ResultOk(result)
                  THEN run_script([stored EXCEPT !.recommendations = result,
                                                 !.rating_phase = FALSE],
                                  SubmitCall(RatingsList(stored), result), "submit")
                  ELSE /\ session_state' = stored
                       /\ page_error' = "Failed to get recommendations. Please try again."
                       /\ api_call' = SubmitCall(RatingsList(stored), result)
                       /\ page_event' = "submit"
                       /\ UNCHANGED <<recommender_vars, dataset_vars>>

\* lines 182-184: "Reset"
click_reset ==
    /\ SongShown
    /\ run_script(reset_session, api_call, "reset")

\* lines 263-265: "Rate New Songs"
click_rate_new_songs ==
    /\ page_event # "none"
    /\ ~session_state.rating_phase
    /\ session_state.recommendations # None
    /\ run_script(reset_session, api_call, "rate_new_songs")

\* lines 52-54: "CLEAR SESSION"; the rerun sets the defaults of lines 59-70
clear_session ==
    /\ page_event # "none"
    /\ run_script(InitialSession, api_call, "clear")

\* ------------------------------------------------------- the specification
Init ==
    /\ knn_model = None
    /\ scaler = None
    /\ recommender_data = None
    /\ recommender_df = None
    /\ scaled_features = None
    /\ feature_cols = None
    /\ server = "starting"
    /\ load_returned = "none"
    /\ response = NoResponse
    /\ frame = EmptyFrame
    /\ df = None
    /\ upload_pc = "idle"
    /\ upload_response = NoUploadResponse
    /\ analytics_response = NoAnalytics
    /\ df_at_upload = None
    /\ session_state = InitialSession
    /\ page_error = ""
    /\ api_call = NoCall
    /\ page_event = "none"

Next ==
    \/ \E art \in ArtifactSets, fail_at \in 0..Len(LoadSteps) :
          load_recommender_models(art, fail_at)
    \/ app_run
    \/ start_rating_session
    \/ submit_ratings_and_recommend
    \/ send_response

Spec == Init /\ [][Next]_vars

\* the service over catalogs of up to 11 rows, asked for rating sessions only
SampleNext ==
    \/ \E art \in {ArtifactsOf(cat) : cat \in SampleCatalogs},
          fail_at \in 0..Len(LoadSteps) :
          load_recommender_models(art, fail_at)
    \/ app_run
    \/ start_rating_session
    \/ send_response

SampleSpec == Init /\ [][SampleNext]_vars

\* the service asked for recommendations with any JSON rating entries
JsonNext ==
    \/ \E art \in {ArtifactsOf(cat) : cat \in Catalogs}, fail_at \in 0..Len(LoadSteps) :
          load_recommender_models(art, fail_at)
    \/ app_run
    \/ submit_json
    \/ send_response

JsonSpec == Init /\ [][JsonNext]_vars

\* the app serving uploads and analytics, each request on its own thread
UploadNext ==
    \/ app_run
    \/ \E file \in RequestFiles : upload(file)
    \/ upload_validate
    \/ upload_add_mood
    \/ upload_return
    \/ upload_sent
    \/ health
    \/ stats
    \/ mood_distribution
    \/ analytics_sent

UploadSpec == Init /\ [][UploadNext]_vars

\* the rating page and its user
PageNext ==
    \/ main
    \/ \E stars \in StarsInputs : move_slider(stars)
    \/ click_previous
    \/ click_next
    \/ click_submit
    \/ click_reset
    \/ click_rate_new_songs
    \/ clear_session

PageSpec == Init /\ [][PageNext]_vars

\* ================================================================ properties
\* What the properties read off a state: the request that was answered and the
\* catalog it was answered from.
Answered(endpoint) == response.endpoint = endpoint

\* all five globals of the recommender are set / none of them is
AllSet ==
    /\ knn_model # None /\ scaler # None /\ recommender_df # None
    /\ scaled_features # None /\ feature_cols # None
AllUnset ==
    /\ knn_model = None /\ scaler = None /\ recommender_df = None
    /\ scaled_features = None /\ feature_cols = None

CatalogIndex == Val(recommender_df).index
CatalogLabels == Range(CatalogIndex)
RequestRatings == Val(frame.ratings)
RequestTopK == Val(frame.top_k)
\* the places in the ratings list whose df_index is in the catalog
SurvivingPlaces == {j \in DOMAIN RequestRatings : RequestRatings[j].df_index \in CatalogLabels}
SubmittedLabels == {RequestRatings[j].df_index : j \in DOMAIN RequestRatings}
UnratedLabels == CatalogLabels \ SubmittedLabels
VectorOf(label) ==
    Val(scaled_features)[CHOOSE i \in DOMAIN CatalogIndex : CatalogIndex[i] = label]

\* the sum of F(j) over the places J
RECURSIVE SumOver(_, _)
SumOver(F(_), J) ==
    IF J = {} THEN 0
    ELSE LET j == CHOOSE x \in J : TRUE IN F(j) + SumOver(F, J \ {j})

Centred(j) == RequestRatings[j].rating - 3
CentredSum == SumOver(Centred, SurvivingPlaces)
CentredVectorSum(c) ==
    LET term(j) == Centred(j) * VectorOf(RequestRatings[j].df_index)[c]
    IN  SumOver(term, SurvivingPlaces)

\* a submit request that passed the guard of line 408 has been answered
SubmitServed == Answered("submit") /\ frame.ratings # None
SubmitSucceeded == Answered("submit") /\ response.status = 200
ReturnedLabels ==
    {CatalogIndex[Val(response.recommendations)[n].row] :
        n \in DOMAIN Val(response.recommendations)}

\* C1: a successful submit_ratings_and_recommend returns no catalog row whose
\* df_index appears in an entry of the submitted ratings list, whatever that
\* entry's rating (3 included) and whether or not it entered the profile.
C1_NoRatedItemReturned ==
    SubmitSucceeded => ReturnedLabels \cap SubmittedLabels = {}

\* C1 witness: a success in which an item rated 3 was among the neighbours the
\* loop went through, and was skipped, while another row was returned.
C1_Witness ==
    /\ SubmitSucceeded
    /\ Val(response.recommendations) # << >>
    /\ \E j \in SurvivingPlaces :
          /\ RequestRatings[j].rating = 3
          /\ \E n \in DOMAIN Val(frame.indices) :
                /\ CatalogIndex[Val(frame.indices)[n]] = RequestRatings[j].df_index
                /\ n < Len(Val(frame.indices))
                /\ Val(frame.indices)[n + 1] \in
                      {Val(response.recommendations)[m].row :
                          m \in DOMAIN Val(response.recommendations)}

\* a rating batch that is valid and not degenerate: a rating survives and the
\* centred weights do not sum to zero
ValidBatch == SurvivingPlaces # {} /\ CentredSum # 0

\* C2: with the service ready and a valid, non-degenerate batch, a top_k larger
\* than the number of unrated catalog items succeeds and returns exactly the
\* unrated catalog items, each once.
C2_AllRemainingReturned ==
    (SubmitServed /\ ValidBatch /\ RequestTopK > Cardinality(UnratedLabels))
        => /\ response.status = 200
           /\ ReturnedLabels = UnratedLabels
           /\ Len(Val(response.recommendations)) = Cardinality(UnratedLabels)

\* C3: the neighbour query issued for k = top_k * 2 returns min(k, catalog size)
\* candidates; a k above the catalog size is clamped and is no error.
C3_QueryClamped ==
    (SubmitServed /\ frame.user_profile # None)
        => /\ frame.indices # None
           /\ Len(Val(frame.indices)) = Min(RequestTopK * 2, Len(CatalogIndex))
           /\ response.status = 200

\* C4: a batch whose surviving ratings all have score 3 is rejected as a
\* request-level error (a 4xx status, as the empty batch is) and returns no
\* recommendations.
C4_DegenerateRejected ==
    (/\ SubmitServed
     /\ SurvivingPlaces # {}
     /\ \A j \in SurvivingPlaces : RequestRatings[j].rating = 3)
        => /\ response.status \in 400..499
           /\ response.recommendations = None

\* C5: after load_recommender_models has returned False the service is
\* Uninitialized, and every query, start_rating_session and
\* submit_ratings_and_recommend alike, is answered 503.
C5_FailedLoadUnavailable ==
    (load_returned = "False" /\ (Answered("start") \/ Answered("submit")))
        => /\ response.status = 503
           /\ ~Initialized

\* C6: whenever a request handler can run, the five globals knn_model, scaler,
\* recommender_df, scaled_features and feature_cols are all set or all unset.
C6_NoPartialVisibility ==
    server = "serving" => AllSet \/ AllUnset

\* C7: while load_recommender_models has never been called, every query is
\* answered 503, whatever its body, and no state is changed: the globals stay
\* unset and the handler gets to no local.
C7_NeverLoadedUnavailable ==
    (load_returned = "none" /\ (Answered("start") \/ Answered("submit")))
        => /\ response.status = 503
           /\ response.songs = None
           /\ response.recommendations = None
           /\ AllUnset
           /\ recommender_data = None
           /\ frame = EmptyFrame

\* C7 witness: a query answered while the recommender was never loaded.
C7_Witness ==
    /\ load_returned = "none"
    /\ server = "serving"
    /\ Answered("start")
    /\ response.status = 503

\* two profiles are the same point: cross-multiplied, as both are quotients
SameProfile(P, Q) ==
    \A c \in DOMAIN P.num : P.num[c] * Q.den = Q.num[c] * P.den

\* C8: with exactly one surviving rating, of item X, a score of 1 or 2 gives a
\* profile that is not X's own vector and differs from the profile a score of
\* 4 or 5 gives.
C8_LowRatingPullsAway ==
    (/\ SubmitServed
     /\ frame.user_profile # None
     /\ Cardinality(SurvivingPlaces) = 1
     /\ \A j \in SurvivingPlaces : RequestRatings[j].rating \in {1, 2})
        => \A j \in SurvivingPlaces :
              LET X == VectorOf(RequestRatings[j].df_index)
                  P == Val(frame.user_profile)
              IN  /\ ~SameProfile(P, [num |-> X, den |-> 1])
                  /\ ~SameProfile(P, Average(<<X>>, <<Weight(4)>>))
                  /\ ~SameProfile(P, Average(<<X>>, <<Weight(5)>>))

\* C9: when the centred weights of the surviving ratings sum to zero although
\* one of them is not zero, the caller gets an error and no recommendations;
\* and no success is computed from a profile with a zero denominator.
C9_ZeroSumReported ==
    /\ (/\ SubmitServed
        /\ \E j \in SurvivingPlaces : Centred(j) # 0
        /\ CentredSum = 0)
          => /\ response.status >= 400
             /\ response.recommendations = None
    /\ SubmitSucceeded
          => frame.user_profile # None /\ Val(frame.user_profile).den # 0

\* C9 witness: two surviving ratings whose weights cancel (5 and 1, 4 and 2),
\* answered with an error.
C9_Witness ==
    /\ SubmitServed
    /\ \E j \in SurvivingPlaces : Centred(j) # 0
    /\ CentredSum = 0
    /\ response.status >= 400

\* C10: for a batch with a surviving rating and a non-zero weight sum, each
\* coordinate of the profile is the sum of (score - 3) * vector over the
\* surviving ratings divided by the sum of (score - 3) over them.
C10_ProfileIsWeightedMean ==
    (SubmitServed /\ ValidBatch)
        => /\ frame.user_profile # None
           /\ Val(frame.user_profile).den # 0
           /\ \A c \in DOMAIN Val(frame.user_profile).num :
                 Val(frame.user_profile).num[c] * CentredSum
                    = Val(frame.user_profile).den * CentredVectorSum(c)

\* C10 witness: a profile built from two different catalog items with two
\* different non-zero weights.
C10_Witness ==
    /\ SubmitSucceeded
    /\ \E j, k \in SurvivingPlaces :
          /\ RequestRatings[j].df_index # RequestRatings[k].df_index
          /\ Centred(j) # 0 /\ Centred(k) # 0
          /\ Centred(j) # Centred(k)

Recommendations == Val(response.recommendations)
ReturnedRows == {Recommendations[n].row : n \in DOMAIN Recommendations}

\* C11: with the catalog [0,0],[1,0],[0,1],[5,5],[5,6] loaded and the single
\* rating item0 = 5, the profile is [0,0], and top_k = 2 returns exactly items 1
\* and 2, each at distance 1 (similarity 1 - 1 = 0), not item 0, 3 or 4.
C11_ConcreteScenario ==
    (/\ SubmitServed
     /\ Val(scaled_features) = CatalogA.vectors
     /\ Val(knn_model).fit_X = CatalogA.vectors
     /\ CatalogIndex = CatalogA.index
     /\ RequestRatings = <<[df_index |-> 0, rating |-> 5]>>
     /\ RequestTopK = 2)
        => /\ response.status = 200
           /\ SameProfile(Val(frame.user_profile), [num |-> <<0, 0>>, den |-> 1])
           /\ Len(Recommendations) = 2
           /\ ReturnedLabels = {1, 2}
           /\ \A n \in DOMAIN Recommendations : Recommendations[n].similarity_score = 0

\* C11 witness: the scenario's request, answered.
C11_Witness ==
    /\ SubmitSucceeded
    /\ Val(scaled_features) = CatalogA.vectors
    /\ RequestRatings = <<[df_index |-> 0, rating |-> 5]>>
    /\ RequestTopK = 2

KnownEntry(r) == r.df_index \in CatalogLabels

\* C12: for a batch with a known identity, the entries with unknown identities
\* change nothing: the response and the profile are those of the batch without
\* them, and the batch is not rejected as empty.
C12_UnknownDropped ==
    (/\ SubmitServed
     /\ SurvivingPlaces # {}
     /\ SurvivingPlaces # DOMAIN RequestRatings)
        => LET without == submit_result(SelectSeq(RequestRatings, KnownEntry), RequestTopK)
           IN  /\ response = without.response
               /\ frame.user_profile = without.frame.user_profile
               /\ response.status # 400

\* C12 witness: recommendations returned for a batch that mixes a known and an
\* unknown identity.
C12_Witness ==
    /\ SubmitSucceeded
    /\ SurvivingPlaces # {}
    /\ SurvivingPlaces # DOMAIN RequestRatings
    /\ Recommendations # << >>

\* C13: a ratings list that is empty, or has no entry left once the unknown
\* identities are dropped, is answered 400 with no recommendations, and neither
\* a profile nor a neighbour query is made.
C13_EmptyInput ==
    (SubmitServed /\ SurvivingPlaces = {})
        => /\ response.status = 400
           /\ response.recommendations = None
           /\ response.count = None
           /\ frame.user_profile = None
           /\ frame.indices = None
           /\ frame.distances = None

\* C13 witness: a non-empty list of unknown identities only, answered 400.
C13_Witness ==
    /\ SubmitServed
    /\ RequestRatings # << >>
    /\ SurvivingPlaces = {}
    /\ response.status = 400

\* the coordinate counts the loaded parts state
CoordinateCounts ==
    (IF knn_model = None THEN {} ELSE {Len(Val(knn_model).fit_X[1])})
    \cup (IF scaler = None THEN {} ELSE {Val(scaler).n_features})
    \cup (IF scaled_features = None THEN {} ELSE {Len(Val(scaled_features)[1])})
    \cup (IF feature_cols = None THEN {} ELSE {Len(Val(feature_cols))})

\* C14: when the loaded parts disagree on the coordinate count, the load refuses
\* to serve: it does not return True and the service is not initialized.
C14_MismatchRefused ==
    Cardinality(CoordinateCounts) > 1
        => load_returned # "True" /\ ~(server = "serving" /\ Initialized)

\* C15: a success returns at most top_k recommendations, its count is the length
\* of the list, and no catalog row is in the list twice.
C15_AtMostTopK ==
    SubmitSucceeded
        => /\ Len(Recommendations) <= RequestTopK
           /\ response.count = Some(Len(Recommendations))
           /\ Cardinality(ReturnedRows) = Len(Recommendations)

\* C15 witness: the list was cut at top_k although more unrated neighbours had
\* been fetched.
C15_Witness ==
    /\ SubmitSucceeded
    /\ Len(Recommendations) = RequestTopK
    /\ Cardinality({n \in DOMAIN Val(frame.indices) :
                      CatalogIndex[Val(frame.indices)[n]] \notin SubmittedLabels})
          > RequestTopK

\* the place of catalog row i in the neighbour list, and the distance the
\* index reported for it
PlaceOfRow(i) == CHOOSE j \in DOMAIN Val(frame.indices) : Val(frame.indices)[j] = i
ReportedDistance(i) == Val(frame.distances)[PlaceOfRow(i)]
\* the neighbour at place j was rated, so the loop skipped it
Skipped(j) == CatalogIndex[Val(frame.indices)[j]] \in SubmittedLabels

\* C16: the recommendations of a success are in the order of non-decreasing
\* distance from the profile, which is non-increasing similarity_score.
C16_OrderedByDistance ==
    SubmitSucceeded
        => \A m, n \in DOMAIN Recommendations :
              m < n => /\ ReportedDistance(Recommendations[m].row)
                            <= ReportedDistance(Recommendations[n].row)
                       /\ Recommendations[m].similarity_score
                            >= Recommendations[n].similarity_score

\* C16 witness: two recommendations at different distances, with a rated
\* neighbour skipped between them.
C16_Witness ==
    /\ SubmitSucceeded
    /\ Len(Recommendations) = 2
    /\ Recommendations[1].similarity_score > Recommendations[2].similarity_score
    /\ \E j \in DOMAIN Val(frame.indices) :
          /\ Skipped(j)
          /\ PlaceOfRow(Recommendations[1].row) < j
          /\ j < PlaceOfRow(Recommendations[2].row)

\* C17: the similarity_score of a recommendation is 1 - d (100 - d in
\* hundredths) for the distance d the index reported for that same row.
C17_SimilarityOfSameRow ==
    SubmitSucceeded
        => \A n \in DOMAIN Recommendations :
              /\ Recommendations[n].row \in Range(Val(frame.indices))
              /\ Recommendations[n].similarity_score
                    = 100 - ReportedDistance(Recommendations[n].row)

\* C17 witness: a row returned right after a skipped neighbour that lies at
\* another distance.
C17_Witness ==
    /\ SubmitSucceeded
    /\ \E n \in DOMAIN Recommendations :
          LET j == PlaceOfRow(Recommendations[n].row)
          IN  /\ j > 1
              /\ Skipped(j - 1)
              /\ Val(frame.distances)[j - 1] # Val(frame.distances)[j]

\* C18: every similarity score returned lies in [0,1] (0..100 in hundredths),
\* and a closer row has a higher score.
C18_SimilarityInUnitInterval ==
    SubmitSucceeded
        => /\ \A n \in DOMAIN Recommendations :
                 Recommendations[n].similarity_score \in 0..100
           /\ \A m, n \in DOMAIN Recommendations :
                 ReportedDistance(Recommendations[m].row)
                    < ReportedDistance(Recommendations[n].row)
                 => Recommendations[m].similarity_score
                      > Recommendations[n].similarity_score

\* the list with the entries at places j and j + 1 exchanged
SwapAt(seq, j) ==
    [n \in DOMAIN seq |-> IF n = j THEN seq[j + 1] ELSE IF n = j + 1 THEN seq[j] ELSE seq[n]]

\* C19: the profile and the response do not depend on the order of the ratings
\* list: exchanging two neighbouring entries changes neither (and every
\* permutation is a chain of such exchanges).
C19_OrderInvariant ==
    SubmitServed
        => \A j \in 1..(Len(RequestRatings) - 1) :
              LET swapped == submit_result(SwapAt(RequestRatings, j), RequestTopK)
              IN  /\ swapped.response = response
                  /\ swapped.frame.user_profile = frame.user_profile

\* C19 witness: recommendations from two ratings of different items with
\* different weights.
C19_Witness ==
    /\ SubmitSucceeded
    /\ Len(RequestRatings) = 2
    /\ SurvivingPlaces = {1, 2}
    /\ RequestRatings[1].df_index # RequestRatings[2].df_index
    /\ RequestRatings[1].rating # RequestRatings[2].rating
    /\ Recommendations # << >>

\* C20: no request changes the service: across every step taken while serving,
\* the loaded model, catalog and feature vectors and the load's result stay as
\* they are, and once the response is sent no rating, profile or other local of
\* the request is kept.
C20_NoSideEffects ==
    [][server = "serving"
         => /\ globals' = globals
            /\ load_returned' = load_returned
            /\ server' = server
            /\ response' = NoResponse => frame' = EmptyFrame]_vars

\* C20 witness: a sample was served from a loaded catalog.
C20_Witness ==
    /\ Answered("start")
    /\ response.status = 200
    /\ AllSet

Songs == Val(response.songs)

\* C21: with the service ready, start_rating_session returns min(10, catalog
\* size) songs, no two of them the same catalog row, each with the df_index of
\* a catalog row, which submit_ratings_and_recommend finds in the catalog when
\* it gets a rating of it.
C21_SampleOfCatalog ==
    (Answered("start") /\ Initialized)
        => /\ response.status = 200
           /\ Len(Songs) = Min(10, Len(CatalogIndex))
           /\ \A a, b \in DOMAIN Songs : a # b => Songs[a].df_index # Songs[b].df_index
           /\ \A a \in DOMAIN Songs :
                 /\ Songs[a].df_index \in CatalogLabels
                 /\ LET rated == submit_result(
                                     <<[df_index |-> Songs[a].df_index, rating |-> 5]>>, 1)
                    IN  /\ rated.frame.rated_features # None
                        /\ Len(Val(rated.frame.rated_features)) = 1

\* C21 witness: ten songs sampled from a catalog of eleven.
C21_Witness ==
    /\ Answered("start")
    /\ Initialized
    /\ Len(CatalogIndex) = 11
    /\ Len(Songs) = 10

\* the fetched neighbours that were not rated
UnratedNeighbours == {j \in DOMAIN Val(frame.indices) : ~Skipped(j)}
\* the catalog items an entry of the ratings list names
RatedItems == SubmittedLabels \cap CatalogLabels

\* C22: a success fetched top_k * 2 neighbours and returns min(top_k, number of
\* unrated ones among them) recommendations; with at most top_k distinct
\* catalog items rated that is exactly top_k.
C22_ExactCount ==
    SubmitSucceeded
        => /\ Len(Val(frame.indices)) = RequestTopK * 2
           /\ Len(Recommendations) = Min(RequestTopK, Cardinality(UnratedNeighbours))
           /\ Cardinality(RatedItems) <= RequestTopK
                 => Len(Recommendations) = RequestTopK

\* C22 witness: more than top_k items were rated and fewer than top_k of the
\* fetched neighbours were left.
C22_Witness ==
    /\ SubmitSucceeded
    /\ Cardinality(RatedItems) > RequestTopK
    /\ Len(Recommendations) < RequestTopK

\* the places of the entries that lack df_index or rating or give it as null,
\* and of the valid ones: both fields given and the df_index in the catalog
MalformedPlaces ==
    {j \in DOMAIN RequestRatings :
        ~(Has(RequestRatings[j], "df_index") /\ Has(RequestRatings[j], "rating"))}
ValidPlaces ==
    {j \in DOMAIN RequestRatings \ MalformedPlaces :
        RequestRatings[j].df_index \in CatalogLabels}

\* C25: an entry that lacks df_index or rating, or gives it as null, is skipped
\* and does not abort the request: with another entry valid, the weights of the
\* valid entries not summing to zero and a catalog of top_k * 2 rows or more,
\* the answer is a success with recommendations built from the valid entries.
C25_MalformedSkipped ==
    (/\ SubmitServed
     /\ MalformedPlaces # {}
     /\ ValidPlaces # {}
     /\ SumOver(Centred, ValidPlaces) # 0
     /\ RequestTopK * 2 <= Len(CatalogIndex))
        => /\ response.status = 200
           /\ response.recommendations # None
           /\ Len(Val(frame.weights)) = Cardinality(ValidPlaces)

\* the upload in progress has answered, with a rejection
UploadRejected == upload_pc = "returned" /\ upload_response.status # 200
\* a table that passed the checks of lines 78-83
Validated(table) == table.rows > 0 /\ Required \subseteq table.columns

\* C23: when an upload is answered with anything but 200, df is what it was
\* when the upload was received, and so is what /health, /stats and
\* /mood-distribution answer.
C23_RejectedUploadKeepsDataset ==
    UploadRejected => df = df_at_upload

\* C24: an analytics request answered while an upload is in progress worked on
\* the dataset from before the upload or on the new one with its checks passed
\* and its Mood column added, never on the new one before that.
C24_NoHalfPublishedDataset ==
    [][(/\ analytics_response' # analytics_response
        /\ analytics_response'.dataset # None
        /\ upload_pc \in {"published", "validated", "mooded"})
          => \/ analytics_response'.dataset = df_at_upload
             \/ /\ Validated(Val(analytics_response'.dataset))
                /\ "Mood" \in Val(analytics_response'.dataset).columns]_vars

\* what the properties read off the page
PageSongs == Val(session_state.songs_to_rate)
PageIndex == session_state.current_song_index
SentRatings == Val(api_call.ratings)
SubmitCalled == api_call.endpoint = "submit_ratings_and_recommend"

\* C26: recommendations are requested only with every presented song rated:
\* the list of a submit call has one entry per song of songs_to_rate, in
\* order, with that song's df_index and a rating in 1..5; until then the songs
\* before the one shown all have a stored rating, and the lookup of
\* submit_ratings never misses an index.
C26_AllSongsRatedAtSubmit ==
    /\ page_error # "KeyError"
    /\ SongShown => 0..(PageIndex - 1) \subseteq DOMAIN session_state.user_ratings
    /\ SubmitCalled
          => /\ Len(SentRatings) = Len(PageSongs)
             /\ \A j \in DOMAIN PageSongs :
                   /\ SentRatings[j].df_index = PageSongs[j].df_index
                   /\ SentRatings[j].rating \in 1..5

\* C26 witness: a submit call for a list of two songs or more.
C26_Witness ==
    /\ page_event = "submit"
    /\ SubmitCalled
    /\ Len(SentRatings) >= 2

\* C27: when Next or Previous brings up a song that has a stored rating,
\* current_rating is that rating.
C27_ShownRatingIsStored ==
    (/\ page_event \in {"next", "previous"}
     /\ SongShown
     /\ PageIndex \in DOMAIN session_state.user_ratings)
        => session_state.current_rating = session_state.user_ratings[PageIndex].rating

\* C28: the page leaves the rating phase only in a submit click whose API call
\* returned a result, which recommendations then holds; a submit click whose
\* call failed leaves the page in the rating phase on the same song, with the
\* same songs and the ratings that were sent, the error shown and the submit
\* button enabled.
C28_LeavesRatingPhaseOnResult ==
    [][/\ (session_state.rating_phase /\ ~session_state'.rating_phase)
            => /\ page_event' = "submit"
               /\ SubmitCalled'
               /\ api_call'.result # None
               /\ session_state'.recommendations = api_call'.result
       /\ (page_event' = "submit" /\ api_call'.result = None)
            => /\ session_state'.rating_phase
               /\ SubmitCalled'
               /\ session_state'.songs_to_rate = session_state.songs_to_rate
               /\ session_state'.current_song_index = session_state.current_song_index
               /\ session_state'.user_ratings = StoreRating(session_state).user_ratings
               /\ SentRatings' = RatingsList(session_state')
               /\ page_error' = "Failed to get recommendations. Please try again."
               /\ SongShown'
               /\ IsLastSong(session_state')
               /\ CanProceed(session_state')]_vars

\* C28 witness: a submit click whose call failed.
C28_Witness ==
    /\ page_event = "submit"
    /\ SubmitCalled
    /\ api_call.result = None
    /\ session_state.rating_phase

\* C29, as stated: with a song list in songs_to_rate, current_song_index is
\* within 0..len(songs_to_rate)-1, and 'Invalid song index' is never shown.
C29_IndexInRange ==
    /\ session_state.songs_to_rate # None
          => PageIndex \in 0..(Len(PageSongs) - 1)
    /\ page_error # "Invalid song index"

\* C29, amended: with a song list that is not empty, current_song_index is
\* within 0..len(songs_to_rate)-1; 'Invalid song index' is shown only for the
\* empty song list, with current_song_index 0.
C29_IndexInRangeOfSongs ==
    /\ ~NoSongs(session_state) => PageIndex \in 0..(Len(PageSongs) - 1)
    /\ page_error = "Invalid song index"
          => /\ session_state.songs_to_rate = Some(<< >>)
             /\ PageIndex = 0

\* C29 witness: Previous has led back from the last song of a list.
C29_Witness ==
    /\ page_event = "previous"
    /\ SongShown
    /\ PageIndex = Len(PageSongs) - 2
    /\ Len(PageSongs) - 1 \in DOMAIN session_state.user_ratings

\* C30: after Reset or Rate New Songs the page is in the rating phase at song
\* index 0, with no ratings, no recommendations and current rating 0, and the
\* render that follows has asked the API for songs: songs_to_rate is what that
\* call returned, or None when it failed.
C30_ResetToInitialState ==
    page_event \in {"reset", "rate_new_songs"}
        => /\ session_state.rating_phase
           /\ PageIndex = 0
           /\ session_state.user_ratings = EmptyDict
           /\ session_state.recommendations = None
           /\ session_state.current_rating = 0
           /\ api_call.endpoint = "start_rating_session"
           /\ session_state.songs_to_rate =
                 IF api_call.result = None THEN None
                 ELSE Some(Val(api_call.result).songs)

\* C30 witness: Rate New Songs, after recommendations, has fetched songs.
C30_Witness ==
    /\ page_event = "rate_new_songs"
    /\ session_state.songs_to_rate # None
    /\ PageSongs # << >>

====
